---- MODULE Spec2Model ----
(***************************************************************************)
(* A model of sbsigntools' PE/COFF image engine (src/src/image.c): header  *)
(* parsing, checksum-region construction, the pad-and-reparse loop of      *)
(* image_load, the certificate-table editor (add/get/remove signature),    *)
(* the PE checksum and image_write.                                        *)
(*                                                                         *)
(* An image buffer is a sequence of bytes (0..255); a pointer into a       *)
(* buffer is the byte offset from the buffer's start, so buf[off + 1] is   *)
(* the byte at offset off.  A NULL sigbuf is the empty sequence.           *)
(*                                                                         *)
(* The input files are PE/COFF files with the real header layout and small *)
(* sections.  Every input keeps SizeOfHeaders, the section table and the   *)
(* certificate table inside the file, so that image_load itself reads no   *)
(* byte outside the buffer; the signature walk of image_get_signature can  *)
(* still leave sigbuf, and is modelled with that outcome.                  *)
(***************************************************************************)
EXTENDS Integers, Sequences, FiniteSets, TLC

(***************************************************************************)
(* Layout of the on-disk structures that image.c reads.                    *)
(***************************************************************************)
\* sizeof(*image->doshdr)
DosHdrSize == 64
\* offset of doshdr->e_lfanew
ELfanewOff == 60
\* sizeof(*image->pehdr)
PeHdrSize == 24
\* offsets of pehdr->f_magic, f_nscns, f_opthdr
FMagicOff == 4
FNscnsOff == 6
FOpthdrOff == 20
\* offsets, in the a.out header, of FileAlignment, SizeOfHeaders, CheckSum
FileAlignmentOff == 36
SizeOfHeadersOff == 60
CheckSumOff == 64
\* sizeof(*opthdr.opt_32) - sizeof(DataDirectory), and the same for opt_64
OptMinSize32 == 96
OptMinSize64 == 112
\* sizeof(struct data_dir_entry): addr, size
DataDirEntrySize == 8
\* sizeof(struct external_scnhdr), and the offsets of s_size and s_scnptr
ScnHdrSize == 40
SSizeOff == 16
SScnptrOff == 20
\* sizeof(struct cert_table_header): size, revision, type
CertHdrSize == 8
DATA_DIR_CERT_TABLE == 4
CERT_TABLE_TYPE_PKCS == 2
CERT_TABLE_REVISION == 512
IMAGE_FILE_MACHINE_AMD64 == 34404
IMAGE_FILE_MACHINE_AARCH64 == 43620
IMAGE_FILE_MACHINE_I386 == 332
IMAGE_FILE_MACHINE_THUMB == 450

(***************************************************************************)
(* Bytes and little-endian fields.                                         *)
(***************************************************************************)
Byte == 0..255

\* the byte of buf at offset off
At(buf, off) == buf[off + 1]

\* the bytes of buf in [from, to)
Slice(buf, from, to) == SubSeq(buf, from + 1, to)

__pehdr_u32(buf, off) ==
    At(buf, off + 3) * 16777216 + At(buf, off + 2) * 65536
        + At(buf, off + 1) * 256 + At(buf, off)

__pehdr_u16(buf, off) == At(buf, off + 1) * 256 + At(buf, off)

\* the little-endian bytes of a 16-bit and of a 32-bit value
LE16(v) == << v % 256, (v \div 256) % 256 >>

LE32(v) ==
    << v % 256, (v \div 256) % 256, (v \div 65536) % 256,
       (v \div 16777216) % 256 >>

\* buf with the bytes from offset off on overwritten by bytes (a store)
Poke(buf, off, bytes) ==
    [i \in 1..Len(buf) |->
        IF i - 1 >= off /\ i - 1 < off + Len(bytes)
        THEN bytes[i - off] ELSE buf[i]]

\* n zero bytes
Zeros(n) == [i \in 1..n |-> 0]

\* (size + align - 1) & ~(align - 1) for a power of two align: in two's
\* complement the mask rounds towards minus infinity, as \div does
align_up(size, align) == ((size + align - 1) \div align) * align

(***************************************************************************)
(* struct image after talloc + memset(0) + fileio_read_file.  Pointers     *)
(* into buf are offsets; sigbuf = << >> is the NULL sigbuf.  A region is   *)
(* [data |-> offset in buf, size |-> length, name |-> label].              *)
(***************************************************************************)
NewImage(bytes) ==
    [buf |-> bytes, size |-> Len(bytes), data_size |-> 0,
     checksum |-> 0, pehdr |-> 0, opthdr |-> 0,
     opthdr_min_size |-> 0, opthdr_size |-> 0,
     data_dir |-> 0, data_dir_sigtable |-> 0, scnhdr |-> 0, sections |-> 0,
     cert_table |-> 0, cert_table_size |-> 0,
     file_alignment |-> 0, header_size |-> 0,
     checksum_regions |-> << >>, sigbuf |-> << >>, sigsize |-> 0]

\* the image of a load that returned NULL
NoImage == NewImage(<< >>)

(***************************************************************************)
(* image_pecoff_parse and the machine-specific parsers.  Each returns      *)
(* [rc, image]: rc = 0 on success, -1 on a validation failure.             *)
(***************************************************************************)
image_pecoff_parse_32(image) ==
    IF At(image.buf, image.opthdr) /= 11 \/ At(image.buf, image.opthdr + 1) /= 1
    THEN [rc |-> -1, image |-> image]
    ELSE [rc |-> 0, image |->
            [image EXCEPT
                !.opthdr_min_size = OptMinSize32,
                !.file_alignment =
                    __pehdr_u32(image.buf, image.opthdr + FileAlignmentOff),
                !.header_size =
                    __pehdr_u32(image.buf, image.opthdr + SizeOfHeadersOff),
                !.data_dir = image.opthdr + OptMinSize32,
                !.checksum = image.opthdr + CheckSumOff]]

image_pecoff_parse_64(image) ==
    IF At(image.buf, image.opthdr) /= 11 \/ At(image.buf, image.opthdr + 1) /= 2
    THEN [rc |-> -1, image |-> image]
    ELSE [rc |-> 0, image |->
            [image EXCEPT
                !.opthdr_min_size = OptMinSize64,
                !.file_alignment =
                    __pehdr_u32(image.buf, image.opthdr + FileAlignmentOff),
                !.header_size =
                    __pehdr_u32(image.buf, image.opthdr + SizeOfHeadersOff),
                !.data_dir = image.opthdr + OptMinSize64,
                !.checksum = image.opthdr + CheckSumOff]]

\* lines 258-303: the part of image_pecoff_parse after the a.out header
\* was parsed into im.  The certificate table header at cert_table is
\* read without a check that it lies in the file: when it does not, the
\* test of line 292 reads outside buf and oobvalid is its outcome, which
\* the caller draws from both truth values.
ParseDirectories(im, oobvalid) ==
    LET opthdr_size == __pehdr_u16(im.buf, im.pehdr + FOpthdrOff)
        cert_table_offset == DataDirEntrySize * (DATA_DIR_CERT_TABLE + 1)
        sigtable == im.data_dir + DataDirEntrySize * DATA_DIR_CERT_TABLE
    IN  IF opthdr_size < im.opthdr_min_size + cert_table_offset
        THEN [rc |-> -1, oob |-> FALSE, image |-> im]
        ELSE IF im.size < DosHdrSize + PeHdrSize + opthdr_size
        THEN [rc |-> -1, oob |-> FALSE, image |-> im]
        ELSE
          LET cert_table_size == __pehdr_u32(im.buf, sigtable + 4)
              cert_table == IF cert_table_size /= 0
                            THEN __pehdr_u32(im.buf, sigtable) ELSE 0
              inside == cert_table + CertHdrSize <= im.size
              valid == /\ cert_table_size /= 0
                       /\ IF inside
                          THEN /\ __pehdr_u16(im.buf, cert_table + 4)
                                     = CERT_TABLE_REVISION
                               /\ __pehdr_u16(im.buf, cert_table + 6)
                                     = CERT_TABLE_TYPE_PKCS
                               /\ __pehdr_u32(im.buf, cert_table) < im.size
                          ELSE oobvalid
          IN [rc |-> 0, oob |-> cert_table_size /= 0 /\ ~inside, image |->
                [im EXCEPT
                    !.opthdr_size = opthdr_size,
                    !.data_dir_sigtable = sigtable,
                    !.cert_table_size = cert_table_size,
                    !.cert_table = cert_table,
                    !.sigsize = IF valid THEN cert_table_size ELSE @,
                    !.sigbuf = IF valid
                               THEN Slice(im.buf, cert_table,
                                          cert_table + cert_table_size)
                               ELSE @,
                    !.sections = __pehdr_u16(im.buf, im.pehdr + FNscnsOff),
                    !.scnhdr = im.opthdr + opthdr_size]]

image_pecoff_parse(image, oobvalid) ==
    IF image.size < DosHdrSize
    THEN [rc |-> -1, oob |-> FALSE, image |-> image]
    ELSE IF At(image.buf, 0) /= 77 \/ At(image.buf, 1) /= 90
    THEN [rc |-> -1, oob |-> FALSE, image |-> image]
    ELSE
      LET addr == __pehdr_u32(image.buf, ELfanewOff)
      IN  IF addr >= image.size
          THEN [rc |-> -1, oob |-> FALSE, image |-> image]
          ELSE IF addr + PeHdrSize > image.size
          THEN [rc |-> -1, oob |-> FALSE, image |-> image]
          ELSE IF Slice(image.buf, addr, addr + 4) /= << 80, 69, 0, 0 >>
          THEN [rc |-> -1, oob |-> FALSE, image |-> image]
          ELSE
            LET im0 == [image EXCEPT !.pehdr = addr,
                                     !.opthdr = addr + PeHdrSize]
                magic == __pehdr_u16(image.buf, addr + FMagicOff)
                r == IF magic \in {IMAGE_FILE_MACHINE_AMD64,
                                   IMAGE_FILE_MACHINE_AARCH64}
                     THEN image_pecoff_parse_64(im0)
                     ELSE IF magic \in {IMAGE_FILE_MACHINE_I386,
                                        IMAGE_FILE_MACHINE_THUMB}
                     THEN image_pecoff_parse_32(im0)
                     ELSE [rc |-> -1, image |-> im0]
            IN  IF r.rc /= 0
                THEN [rc |-> -1, oob |-> FALSE, image |-> r.image]
                ELSE ParseDirectories(r.image, oobvalid)

(***************************************************************************)
(* image_find_regions.                                                     *)
(***************************************************************************)
\* cmp_regions(r1, r2) <= 0
cmp_regions_le(r1, r2) == r1.data <= r2.data

\* regions with r inserted before the first element that compares greater
RECURSIVE InsertRegion(_, _)
InsertRegion(regions, r) ==
    IF regions = << >> THEN << r >>
    ELSE IF cmp_regions_le(regions[Len(regions)], r)
         THEN Append(regions, r)
         ELSE Append(InsertRegion(SubSeq(regions, 1, Len(regions) - 1), r),
                     regions[Len(regions)])

\* qsort(checksum_regions, n, sizeof(struct region), cmp_regions).  The
\* order qsort leaves equal elements in is not specified.  No two regions
\* of the files of Inputs start at the same offset; of the files of
\* LoadInputs one gets a section at offset 0, next to the first header
\* region, and neither of the two is the last element, from which
\* data_size is taken.
RECURSIVE qsort(_)
qsort(regions) ==
    IF regions = << >> THEN << >>
    ELSE InsertRegion(qsort(SubSeq(regions, 1, Len(regions) - 1)),
                      regions[Len(regions)])

set_region_from_range(start, end, name) ==
    [data |-> start, size |-> end - start, name |-> name]

\* lines 368-415: the loop over the section headers from header i on.
\* acc = [regions, bytes, warn] is the state the loop carries.
RECURSIVE AddSections(_, _, _)
AddSections(image, i, acc) ==
    IF i >= image.sections THEN acc
    ELSE
      LET hdr == image.scnhdr + i * ScnHdrSize
          file_offset == __pehdr_u32(image.buf, hdr + SScnptrOff)
          file_size == __pehdr_u32(image.buf, hdr + SSizeOff)
          prev == acc.regions[Len(acc.regions)]
          r == [data |-> file_offset, size |-> file_size, name |-> "section"]
      IN  IF file_size = 0
          THEN AddSections(image, i + 1, acc)
          ELSE AddSections(image, i + 1,
                 [regions |-> Append(acc.regions, r),
                  bytes |-> acc.bytes + file_size,
                  warn |-> acc.warn
                     \cup (IF file_offset + file_size > image.size
                           THEN {"section extends beyond end of file"}
                           ELSE {})
                     \cup (IF prev.data + prev.size /= file_offset
                           THEN {"gap in section table"} ELSE {})])

\* lines 445-453: the size of non-signature data, from the last element of
\* the region list
DataSizeOf(regions) ==
    LET r == regions[Len(regions)] IN align_up(r.data + r.size, 8)

\* returns [image, warn]: the image with checksum_regions and data_size
\* set, and the warnings printed on stderr
image_find_regions(image) ==
    LET r0 == set_region_from_range(0, image.checksum, "begin->cksum")
        r1 == set_region_from_range(image.checksum + 4,
                                    image.data_dir_sigtable,
                                    "cksum->datadir[CERT]")
        r2 == set_region_from_range(
                  image.data_dir_sigtable + DataDirEntrySize,
                  image.header_size, "datadir[CERT]->headers")
        acc == AddSections(image, 0,
                 [regions |-> << r0, r1, r2 >>,
                  bytes |-> r0.size + 4 + r1.size + DataDirEntrySize + r2.size,
                  warn |-> {}])
        sorted == qsort(acc.regions)
        bytes == acc.bytes
        endjunk == [data |-> bytes,
                    size |-> image.size - bytes - image.cert_table_size,
                    name |-> "endjunk"]
        regions == IF bytes + image.cert_table_size < image.size
                   THEN Append(sorted, endjunk) ELSE sorted
        warn == acc.warn
                  \cup (IF bytes + image.cert_table_size < image.size
                        THEN {"data remaining"} ELSE {})
                  \cup (IF bytes + image.cert_table_size > image.size
                        THEN {"checksum areas are greater than image size"}
                        ELSE {})
    IN  [image |-> [image EXCEPT !.checksum_regions = regions,
                                 !.data_size = DataSizeOf(regions)],
         warn |-> warn]

\* lines 522-535 of image_hash_sha256: the bytes SHA256_Update is fed, the
\* regions' bytes in list order, from region i on.  A region byte outside
\* buf is an out-of-bounds read, which yields g.  A region of negative
\* size contributes nothing here; the files of Inputs have none.
RECURSIVE HashedFrom(_, _, _)
HashedFrom(image, i, g) ==
    IF i > Len(image.checksum_regions) THEN << >>
    ELSE LET r == image.checksum_regions[i]
         IN  [k \in 1..r.size |->
                 IF r.data + k <= Len(image.buf)
                 THEN image.buf[r.data + k] ELSE g]
                \o HashedFrom(image, i + 1, g)

\* the digest stands for the bytes it is computed from
image_hash_sha256(image, g) == HashedFrom(image, 1, g)

(***************************************************************************)
(* The certificate-table editor.  sigbuf holds WIN_CERTIFICATE entries:    *)
(* a header (u32 size, u16 revision, u16 type), the payload, zero padding  *)
(* to a multiple of 8.                                                     *)
(***************************************************************************)
\* talloc_realloc(image, buf, uint8_t, n): n = 0 frees buf and returns
\* NULL; n < 0 stands for a size_t that wrapped around, which talloc
\* refuses (NULL).  Bytes added by a growth are written by the caller
\* before anything reads them.
talloc_realloc(buf, n) ==
    IF n <= 0 THEN << >>
    ELSE [i \in 1..n |-> IF i <= Len(buf) THEN buf[i] ELSE 0]

\* image_add_signature, had it stored the padded size in cth->size
image_add_signature_padded(image, sig) ==
    LET tot_size == Len(sig) + CertHdrSize
        aligned_size == align_up(tot_size, 8)
        start == IF image.sigbuf /= << >> THEN image.sigsize ELSE 0
        grown == IF image.sigbuf /= << >>
                 THEN talloc_realloc(image.sigbuf,
                                     image.sigsize + aligned_size)
                 ELSE Zeros(aligned_size)
        sigsize == IF image.sigbuf /= << >>
                   THEN image.sigsize + aligned_size ELSE aligned_size
        cth == LE32(aligned_size) \o LE16(CERT_TABLE_REVISION)
                  \o LE16(CERT_TABLE_TYPE_PKCS)
        entry == cth \o sig \o Zeros(aligned_size - tot_size)
    IN  [image EXCEPT !.sigbuf = Poke(grown, start, entry),
                      !.sigsize = sigsize,
                      !.cert_table = start]

image_add_signature(image, sig) ==
    LET tot_size == Len(sig) + CertHdrSize
        aligned_size == align_up(tot_size, 8)
        start == IF image.sigbuf /= << >> THEN image.sigsize ELSE 0
        grown == IF image.sigbuf /= << >>
                 THEN talloc_realloc(image.sigbuf,
                                     image.sigsize + aligned_size)
                 ELSE Zeros(aligned_size)
        sigsize == IF image.sigbuf /= << >>
                   THEN image.sigsize + aligned_size ELSE aligned_size
        cth == LE32(tot_size) \o LE16(CERT_TABLE_REVISION)
                  \o LE16(CERT_TABLE_TYPE_PKCS)
        entry == cth \o sig \o Zeros(aligned_size - tot_size)
    IN  [image EXCEPT !.sigbuf = Poke(grown, start, entry),
                      !.sigsize = sigsize,
                      !.cert_table = start]

\* whether the 4 bytes of header->size at offset addr lie inside sigbuf
HeaderInside(sigbuf, addr) == addr >= 0 /\ addr + 4 <= Len(sigbuf)

\* header->size of the header at offset addr of sigbuf.  A header outside
\* the allocation is an out-of-bounds read: it yields the value g, which
\* the caller draws from every value the model allows for such a read.
HeaderSize(sigbuf, addr, g) ==
    IF HeaderInside(sigbuf, addr) THEN __pehdr_u32(sigbuf, addr) ELSE g

\* lines 587-591: the walk over the first signum headers, from header i at
\* offset addr.  Returns [addr, oob]: where the walk ends and whether it
\* read a header outside sigbuf.
RECURSIVE SignatureWalk(_, _, _, _, _, _)
SignatureWalk(sigbuf, addr, i, signum, g, oob) ==
    IF i >= signum THEN [addr |-> addr, oob |-> oob]
    ELSE SignatureWalk(sigbuf,
                       addr + align_up(HeaderSize(sigbuf, addr, g), 8),
                       i + 1, signum, g,
                       oob \/ ~HeaderInside(sigbuf, addr))

\* returns [rc, buf, size, oob]: buf is the offset in sigbuf of the
\* payload, size its length
image_get_signature(image, signum, g) ==
    IF image.sigbuf = << >>
    THEN [rc |-> -1, buf |-> 0, size |-> 0, oob |-> FALSE]
    ELSE
      LET w == SignatureWalk(image.sigbuf, 0, 0, signum, g, FALSE)
      IN  IF w.addr >= image.sigsize
          THEN [rc |-> -1, buf |-> 0, size |-> 0, oob |-> w.oob]
          ELSE [rc |-> 0, buf |-> w.addr + CertHdrSize,
                size |-> HeaderSize(image.sigbuf, w.addr, g) - CertHdrSize,
                oob |-> w.oob \/ ~HeaderInside(image.sigbuf, w.addr)]

\* memmove(buf + dst, buf + src, n) within buf
memmove(buf, dst, src, n) ==
    [i \in 1..Len(buf) |->
        IF i - 1 >= dst /\ i - 1 < dst + n
        THEN buf[i - 1 - dst + src + 1] ELSE buf[i]]

\* image_remove_signature, had it truncated the table without moving the
\* entries behind the removed one
image_remove_signature_truncating(image, signum, g) ==
    LET r == image_get_signature(image, signum, g)
        buf == r.buf - CertHdrSize
        size == r.size + CertHdrSize
        aligned_size == align_up(size, 8)
    IN  IF r.rc /= 0
        THEN [rc |-> r.rc, image |-> image, oob |-> r.oob]
        ELSE IF buf + aligned_size >= image.sigsize /\ buf = 0
        THEN [rc |-> 0, oob |-> r.oob,
              image |-> [image EXCEPT !.sigbuf = << >>, !.sigsize = 0]]
        ELSE
          LET sigsize == image.sigsize - aligned_size
          IN [rc |-> 0, oob |-> r.oob,
              image |-> [image EXCEPT
                            !.sigbuf = talloc_realloc(image.sigbuf, sigsize),
                            !.sigsize = sigsize]]

\* returns [rc, image, oob]
image_remove_signature(image, signum, g) ==
    LET r == image_get_signature(image, signum, g)
        buf == r.buf - CertHdrSize
        size == r.size + CertHdrSize
        aligned_size == align_up(size, 8)
    IN  IF r.rc /= 0
        THEN [rc |-> r.rc, image |-> image, oob |-> r.oob]
        ELSE IF buf + aligned_size >= image.sigsize /\ buf = 0
        THEN [rc |-> 0, oob |-> r.oob,
              image |-> [image EXCEPT !.sigbuf = << >>, !.sigsize = 0]]
        ELSE
          LET moved == IF buf + aligned_size >= image.sigsize
                       THEN image.sigbuf
                       ELSE memmove(image.sigbuf, buf, buf + aligned_size,
                                    image.sigsize - buf - aligned_size)
              sigsize == image.sigsize - aligned_size
          IN [rc |-> 0, oob |-> r.oob,
              image |-> [image EXCEPT
                            !.sigbuf = talloc_realloc(moved, sigsize),
                            !.sigsize = sigsize]]

(***************************************************************************)
(* The PE checksum and image_write.                                        *)
(***************************************************************************)
csum_update_fold(csum, x) ==
    LET new == csum + x
    IN  ((new \div 65536) + (new % 65536)) % 65536

\* the loop of csum_bytes over the 16-bit words lo .. hi-1 (in host,
\* little-endian, order) of the bytes of buf that start at offset from;
\* the words are folded in from left to right; the range is halved, and
\* the left half's sum evaluated (the test left >= 0, which always holds)
\* before the right half starts, only to keep the evaluation shallow
RECURSIVE csum_words(_, _, _, _, _)
csum_words(checksum, buf, from, lo, hi) ==
    IF lo >= hi THEN checksum
    ELSE IF hi = lo + 1
    THEN csum_update_fold(checksum, __pehdr_u16(buf, from + 2 * lo))
    ELSE LET mid == (lo + hi) \div 2
             left == csum_words(checksum, buf, from, lo, mid)
         IN  IF left >= 0 THEN csum_words(left, buf, from, mid, hi)
             ELSE left

\* csum_bytes over the len bytes of buf that start at offset from: the
\* whole words, then the odd trailing byte
csum_bytes(checksum, buf, from, len) ==
    LET n == len \div 2
        c == csum_words(checksum, buf, from, 0, n)
    IN  IF 2 * n < len
        THEN csum_update_fold(c, At(buf, from + 2 * n))
        ELSE c

\* is_signed = image->sigsize && image->sigbuf
IsSigned(image) == image.sigsize /= 0 /\ image.sigbuf /= << >>

\* the checksum, had the stored checksum field been summed with the rest
PeChecksum_whole(image) ==
    LET c2 == csum_bytes(0, image.buf, 0, image.data_size)
        c3 == IF IsSigned(image)
              THEN csum_bytes(c2, image.sigbuf, 0, image.sigsize) ELSE c2
    IN  c3 + image.data_size
           + (IF IsSigned(image) THEN image.sigsize ELSE 0)

\* the 32-bit value image_pecoff_update_checksum computes
PeChecksum(image) ==
    LET c1 == csum_bytes(0, image.buf, 0, image.checksum)
        c2 == csum_bytes(c1, image.buf, image.checksum + 4,
                         image.data_size - (image.checksum + 4))
        c3 == IF IsSigned(image)
              THEN csum_bytes(c2, image.sigbuf, 0, image.sigsize) ELSE c2
    IN  c3 + image.data_size
           + (IF IsSigned(image) THEN image.sigsize ELSE 0)

image_pecoff_update_checksum(image) ==
    [image EXCEPT !.buf = Poke(@, image.checksum, LE32(PeChecksum(image)))]

\* the directory update, had it not tested is_signed
UpdateDataDir_always(image) ==
    [image EXCEPT !.buf =
        Poke(@, image.data_dir_sigtable,
             LE32(image.data_size) \o LE32(image.sigsize))]

\* lines 640-649: the security data directory entry is rewritten in buf
UpdateDataDir(image) ==
    [image EXCEPT !.buf =
        Poke(@, image.data_dir_sigtable,
             IF IsSigned(image)
             THEN LE32(image.data_size) \o LE32(image.sigsize)
             ELSE LE32(0) \o LE32(0))]

\* returns [image, out]: the image after the in-place edits and the bytes
\* written to the file (open and write_all taken to succeed)
image_write(image) ==
    LET im == image_pecoff_update_checksum(UpdateDataDir(image))
    IN  [image |-> im,
         out |-> Slice(im.buf, 0, im.data_size)
                   \o (IF IsSigned(im)
                       THEN Slice(im.sigbuf, 0, im.sigsize) ELSE << >>)]

(***************************************************************************)
(* image_load: one pass of the reparse loop (lines 474-504).  Returns the  *)
(* position the load is left in ("loaded", "reparse" after the buffer was  *)
(* grown, "failed" after the goto err), the image, and the warnings of     *)
(* the pass.  Nothing keeps the header, data directory and section table  *)
(* reads of the pass inside buf: a read at an offset >= size is a read of  *)
(* the memory that follows the allocation, whose content is tail.          *)
(***************************************************************************)
LoadPass(image, oobvalid, tail) ==
    LET mem == [image EXCEPT !.buf = @ \o tail]
        p == image_pecoff_parse(mem, oobvalid)
        f == image_find_regions(p.image)
        im == [f.image EXCEPT !.buf = image.buf]
    IN  IF p.rc /= 0
        THEN [pc |-> "failed", image |-> NoImage, warn |-> {}, oob |-> p.oob]
        ELSE IF im.data_size > im.size
        THEN [pc |-> "reparse",
              image |-> [im EXCEPT
                  !.buf = talloc_realloc(@, im.data_size),
                  !.size = im.data_size],
              warn |-> f.warn, oob |-> p.oob]
        ELSE [pc |-> "loaded", image |-> im, warn |-> f.warn, oob |-> p.oob]

(***************************************************************************)
(* Bounds of the model.                                                    *)
(***************************************************************************)
\* add_signature and remove_signature calls made on the image of a run;
\* get_signature and remove_signature are called with the indices
\* 0 .. MaxOps
MaxOps == 2

\* the payloads add_signature is called with: empty (an entry of 8 bytes,
\* no padding) and 10 bytes of 0xAA (an entry of 18 bytes, padded to 24)
Payloads ==
    { << >>, << 170, 170, 170, 170, 170, 170, 170, 170, 170, 170 >> }

\* what a read of header->size outside sigbuf may yield, as the int that
\* align_up receives: a value that leaves the walk where it is, and one
\* (0xfffffff8) that moves it back into the buffer
OobValues == { 0, -8 }

\* what a read of a region byte outside buf may yield
OobBytes == { 0, 255 }

(***************************************************************************)
(* The input files.                                                        *)
(***************************************************************************)
\* the content of a data byte at offset off
Fill(off) == (off * 7 + 3) % 256

\* a WIN_CERTIFICATE entry as a signing tool lays it out
CertEntry(payload, revision) ==
    LE32(CertHdrSize + Len(payload)) \o LE16(revision)
        \o LE16(CERT_TABLE_TYPE_PKCS) \o payload
        \o Zeros(align_up(CertHdrSize + Len(payload), 8)
                   - (CertHdrSize + Len(payload)))

RECURSIVE PokeSections(_, _, _, _)
PokeSections(buf, table, secs, i) ==
    IF i > Len(secs) THEN buf
    ELSE PokeSections(
             Poke(Poke(buf, table + (i - 1) * ScnHdrSize,
                       << 46, 116, 101, 120, 116, 0, 0, 0 >>),
                  table + (i - 1) * ScnHdrSize + SSizeOff,
                  LE32(secs[i].size) \o LE32(secs[i].ptr)),
             table, secs, i + 1)

\* the file of layout p: DOS header, PE header, a.out header with the
\* data directory, section table, section data, certificate table
MkFile(p) ==
    LET opt == p.lfanew + PeHdrSize
        min == IF p.optmagic = 523 THEN OptMinSize64 ELSE OptMinSize32
        b0 == [i \in 1..p.len |-> IF i - 1 < p.hdrsize THEN 0 ELSE Fill(i - 1)]
        b1 == Poke(Poke(b0, 0, p.mz), ELfanewOff, LE32(p.lfanew))
        b2 == Poke(b1, p.lfanew,
                   << 80, 69, 0, 0 >> \o LE16(p.machine) \o LE16(Len(p.secs)))
        b3 == Poke(b2, p.lfanew + FOpthdrOff, LE16(p.opthdr))
        b4 == Poke(Poke(b3, opt, LE16(p.optmagic)),
                   opt + FileAlignmentOff, LE32(8))
        b5 == Poke(b4, opt + SizeOfHeadersOff, LE32(p.hdrsize) \o p.ck)
        b6 == Poke(b5, opt + min + DataDirEntrySize * DATA_DIR_CERT_TABLE,
                   LE32(p.dir[1]) \o LE32(p.dir[2]))
        b7 == PokeSections(b6, opt + p.opthdr, p.secs, 1)
    IN  Poke(b7, p.certat, p.cert)

Sec(ptr, size) == [ptr |-> ptr, size |-> size]

\* a PE32+ (AMD64) layout whose headers end with the section table
Pe64(secs, len) ==
    [machine |-> IMAGE_FILE_MACHINE_AMD64, optmagic |-> 523,
     lfanew |-> DosHdrSize, opthdr |-> OptMinSize64 + 5 * DataDirEntrySize,
     secs |-> secs,
     hdrsize |-> DosHdrSize + PeHdrSize + OptMinSize64 + 5 * DataDirEntrySize
                    + ScnHdrSize * Len(secs),
     ck |-> << 17, 34, 51, 68 >>, dir |-> << 0, 0 >>, len |-> len,
     cert |-> << >>, certat |-> 0, mz |-> << 77, 90 >>]

\* the same for PE32 (I386)
Pe32(secs, len) ==
    [Pe64(secs, len) EXCEPT
        !.machine = IMAGE_FILE_MACHINE_I386, !.optmagic = 267,
        !.opthdr = OptMinSize32 + 5 * DataDirEntrySize,
        !.hdrsize = DosHdrSize + PeHdrSize + OptMinSize32
                       + 5 * DataDirEntrySize + ScnHdrSize * Len(secs)]

\* a PE32+ layout with one section at 280..296 and the certificate table
\* cert at 296, the data directory declaring size bytes of it
Signed(cert, size) ==
    [Pe64(<< Sec(280, 16) >>, 296 + Len(cert)) EXCEPT
        !.dir = << 296, size >>, !.cert = cert, !.certat = 296]

Layouts ==
    { \* one section, PE32+ and PE32; the same with another stored checksum
      Pe64(<< Sec(280, 16) >>, 296),
      [Pe64(<< Sec(280, 16) >>, 296) EXCEPT !.ck = << 0, 0, 0, 0 >>],
      Pe32(<< Sec(264, 16) >>, 280),
      \* two contiguous sections
      Pe64(<< Sec(320, 8), Sec(328, 16) >>, 344),
      \* a gap between the sections
      Pe64(<< Sec(320, 8), Sec(336, 8) >>, 344),
      \* sections declared out of file order
      Pe64(<< Sec(328, 16), Sec(320, 8) >>, 344),
      \* a section of raw size zero
      Pe64(<< Sec(0, 0), Sec(320, 24) >>, 344),
      \* a section that ends past the end of the file
      Pe64(<< Sec(280, 20) >>, 290),
      \* a file whose length is no multiple of 8
      Pe64(<< Sec(280, 12) >>, 292),
      \* bytes after the last section
      Pe64(<< Sec(280, 8) >>, 296),
      \* overlapping sections
      Pe64(<< Sec(320, 24), Sec(328, 8) >>, 344),
      \* the PE header at an odd offset
      [Pe64(<< Sec(281, 15) >>, 296) EXCEPT !.lfanew = 65, !.hdrsize = 281],
      \* signed: one entry, two entries
      Signed(CertEntry(<< 7, 8, 9 >>, CERT_TABLE_REVISION), 16),
      Signed(CertEntry(<< >>, CERT_TABLE_REVISION)
                \o CertEntry(<< 7, 8, 9 >>, CERT_TABLE_REVISION), 24),
      \* signed, the entry of revision 0x0100
      Signed(CertEntry(<< 7, 8, 9 >>, 256), 16),
      \* signed, a table of 12 bytes: one entry without padding
      Signed(LE32(12) \o LE16(CERT_TABLE_REVISION)
                \o LE16(CERT_TABLE_TYPE_PKCS) \o << 7, 8, 9, 10 >>, 12),
      \* not a PE file: the DOS magic is wrong
      [Pe64(<< Sec(280, 16) >>, 296) EXCEPT !.mz = << 0, 0 >>] }

Inputs == { MkFile(p) : p \in Layouts }

(***************************************************************************)
(* Files whose headers point outside the file, and the memory that         *)
(* follows the buffer of such a file: of the memory c.mem the file is the  *)
(* first c.cut bytes, and the bytes up to c.upto follow its buffer.        *)
(***************************************************************************)
\* bytes of zero that follow every tail
TailLen == 200

\* the a.out header lies behind the end of the file: e_lfanew = 280 and
\* the file ends with the PE header, at 304; the memory behind it holds
\* an a.out header whose SizeOfHeaders is 304
OptHdrOutside ==
    [mem |-> Poke(MkFile([Pe64(<< >>, 456) EXCEPT
                             !.lfanew = 280, !.hdrsize = 456]),
                  280 + PeHdrSize + SizeOfHeadersOff, LE32(304)),
     cut |-> 304, upto |-> 456]

\* the section table (240..320) is cut at 300, in the second header
\* between s_size and s_scnptr; the memory behind it holds the s_scnptr
ScnTableOutside ==
    [mem |-> MkFile(Pe64(<< Sec(320, 80), Sec(344, 8) >>, 408)),
     cut |-> 300, upto |-> 320]

\* the security directory declares 64 bytes at 296 of which the file
\* holds 16
CertTableOutside ==
    [mem |-> MkFile(Signed(CertEntry(<< 7, 8, 9 >>, CERT_TABLE_REVISION)
                              \o Zeros(48), 64)),
     cut |-> 312, upto |-> 312]

CutLayouts == { OptHdrOutside, ScnTableOutside, CertTableOutside }

\* what the memory after a buffer may hold: zeros, or what follows the
\* cut of one of the layouts above
OobTails ==
    { Slice(c.mem, c.cut, c.upto) \o Zeros(TailLen) : c \in CutLayouts }

\* the layouts of the header validations: every machine type the parser
\* knows and one it does not, with either a.out magic, the optional
\* header holding 5 data directory entries or 4
HeaderLayouts ==
    { [Pe64(<< Sec(280, 16) >>, 296) EXCEPT
          !.machine = m, !.optmagic = 523,
          !.opthdr = OptMinSize64 + n * DataDirEntrySize]
        : m \in { IMAGE_FILE_MACHINE_AMD64, IMAGE_FILE_MACHINE_AARCH64,
                  IMAGE_FILE_MACHINE_I386, IMAGE_FILE_MACHINE_THUMB, 512 },
          n \in { 4, 5 } }
    \cup
    { [Pe32(<< Sec(264, 16) >>, 280) EXCEPT
          !.machine = m, !.opthdr = OptMinSize32 + n * DataDirEntrySize]
        : m \in { IMAGE_FILE_MACHINE_AMD64, IMAGE_FILE_MACHINE_AARCH64,
                  IMAGE_FILE_MACHINE_I386, IMAGE_FILE_MACHINE_THUMB, 512 },
          n \in { 4, 5 } }

\* the lengths a valid file is cut to: inside the DOS header, the PE
\* header, the a.out header, the section table, the section
Cuts == { 0, 1, 40, 63, 64, 80, 87, 88, 90, 200, 239, 240, 279, 280, 295 }

\* layouts the region builder warns about or mishandles
RegionLayouts ==
    { \* a section that ends past the end of the file; a length that is
      \* no multiple of 8
      Pe64(<< Sec(280, 20) >>, 290),
      Pe64(<< Sec(280, 12) >>, 292),
      \* a gap between the sections; sections declared out of file order
      Pe64(<< Sec(320, 8), Sec(336, 8) >>, 344),
      Pe64(<< Sec(328, 16), Sec(320, 8) >>, 344),
      \* overlapping sections, the file ending with the inner one
      Pe64(<< Sec(320, 24), Sec(328, 8) >>, 336),
      \* SizeOfHeaders before the end of the data directory
      [Pe64(<< Sec(280, 16) >>, 296) EXCEPT !.hdrsize = 200] }

LoadInputs ==
    { MkFile(p) : p \in HeaderLayouts \cup RegionLayouts }
        \cup { Slice(MkFile(Pe64(<< Sec(280, 16) >>, 296)), 0, n) : n \in Cuts }
        \cup { Slice(c.mem, 0, c.cut) : c \in CutLayouts }
        \cup { \* e_lfanew behind the end of the file
               Poke(MkFile(Pe64(<< Sec(280, 16) >>, 296)),
                    ELfanewOff, LE32(1000)),
               \* the PE signature wrong in its third byte
               Poke(MkFile(Pe64(<< Sec(280, 16) >>, 296)),
                    DosHdrSize, << 80, 69, 1, 0 >>),
               \* the DOS magic wrong
               MkFile([Pe64(<< Sec(280, 16) >>, 296) EXCEPT
                          !.mz = << 0, 0 >>]) }

(***************************************************************************)
(* The state machine: a file is loaded, signatures are added, read and     *)
(* removed, the image is written, and the written file is loaded again.    *)
(***************************************************************************)
VARIABLES
    file,       \* the bytes fileio_read_file returns
    pc,         \* "start", "reparse", "loaded", "failed", "got", "written"
    image,      \* struct image
    warn,       \* the warnings image_load printed
    grows,      \* how often image_load grew the buffer
    loadoob,    \* whether image_load read outside the buffer
    loaded,     \* sigbuf, sigsize, data_size, size as image_load left them
    hist,       \* the add/remove calls made since the load
    ret,        \* what the last image_get_signature returned
    out,        \* the bytes image_write wrote
    prev,       \* what the load before this one and its calls left
    reloaded,   \* whether file is a file image_write wrote in this run
    nops        \* add/remove calls made in this run

vars == << file, pc, image, warn, grows, loadoob, loaded, hist, ret, out,
           prev, reloaded, nops >>

\* the fields of the signature table
SigOf(im) == [sigbuf |-> im.sigbuf, sigsize |-> im.sigsize]

\* what the calls after a load are compared with: fields of the image,
\* and the digest image_hash_sha256 computes of it
Snapshot(im, g) ==
    [sigbuf |-> im.sigbuf, sigsize |-> im.sigsize,
     data_size |-> im.data_size, size |-> im.size,
     cert_table_size |-> im.cert_table_size,
     checksum_regions |-> im.checksum_regions,
     hashed |-> image_hash_sha256(im, g)]

NoRet == [rc |-> 0, signum |-> -1, payload |-> << >>, size |-> 0,
          inside |-> TRUE, oob |-> FALSE]

NoPrev == [loaded |-> Snapshot(NoImage, 0), hist |-> << >>, warn |-> {},
           sigsize |-> 0]

Init ==
    /\ file \in Inputs
    /\ pc = "start"
    /\ image = NoImage
    /\ warn = {}
    /\ grows = 0
    /\ loadoob = FALSE
    /\ loaded = Snapshot(NoImage, 0)
    /\ hist = << >>
    /\ ret = NoRet
    /\ out = << >>
    /\ prev = NoPrev
    /\ reloaded = FALSE
    /\ nops = 0

\* the state a pass of image_load leaves
AfterPass(r, g) ==
    /\ pc' = r.pc
    /\ image' = r.image
    /\ warn' = warn \cup r.warn
    /\ grows' = IF r.pc = "reparse" THEN grows + 1 ELSE grows
    /\ loadoob' = (loadoob \/ r.oob)
    /\ loaded' = IF r.pc = "loaded" THEN Snapshot(r.image, g) ELSE loaded
    /\ UNCHANGED << file, hist, ret, out, prev, reloaded, nops >>

\* image_load up to its first return or goto reparse
Load ==
    /\ pc = "start"
    /\ \E oobvalid \in BOOLEAN, g \in OobBytes, tail \in OobTails :
          AfterPass(LoadPass(NewImage(file), oobvalid, tail), g)

\* image_load from the label reparse on
Reparse ==
    /\ pc = "reparse"
    /\ \E oobvalid \in BOOLEAN, g \in OobBytes, tail \in OobTails :
          AfterPass(LoadPass(image, oobvalid, tail), g)

\* The image is edited before it is written; the file written is loaded
\* again once, and that image is only read.
AddSignature ==
    /\ pc = "loaded"
    /\ ~reloaded
    /\ nops < MaxOps
    /\ \E sig \in Payloads :
          /\ image' = image_add_signature(image, sig)
          /\ hist' = Append(hist, [op |-> "add", sig |-> sig, signum |-> -1,
                                   rc |-> 0, oob |-> FALSE,
                                   before |-> SigOf(image)])
    /\ nops' = nops + 1
    /\ ret' = NoRet
    /\ UNCHANGED << file, pc, warn, grows, loadoob, loaded, out, prev,
                    reloaded >>

\* image_get_signature changes nothing in the image, so whatever the
\* program does after it, it can do from the state before it: the model
\* ends a run with the call ("got") and continues from the state before.
GetSignature ==
    /\ pc = "loaded"
    /\ pc' = "got"
    /\ \E signum \in 0..MaxOps, g \in OobValues :
          LET r == image_get_signature(image, signum, g)
              inside == r.rc = 0 /\ r.size >= 0
                           /\ r.buf + r.size <= Len(image.sigbuf)
          IN  ret' = [rc |-> r.rc, signum |-> signum,
                      payload |-> IF inside
                                  THEN Slice(image.sigbuf, r.buf,
                                             r.buf + r.size)
                                  ELSE << >>,
                      size |-> r.size, inside |-> inside \/ r.rc /= 0,
                      oob |-> r.oob]
    /\ UNCHANGED << file, image, warn, grows, loadoob, loaded, hist, out,
                    prev, reloaded, nops >>

RemoveSignature ==
    /\ pc = "loaded"
    /\ ~reloaded
    /\ nops < MaxOps
    /\ \E signum \in 0..MaxOps, g \in OobValues :
          LET r == image_remove_signature(image, signum, g)
          IN  /\ image' = r.image
              /\ hist' = Append(hist, [op |-> "remove", sig |-> << >>,
                                       signum |-> signum, rc |-> r.rc,
                                       oob |-> r.oob,
                                       before |-> SigOf(image)])
    /\ nops' = nops + 1
    /\ ret' = NoRet
    /\ UNCHANGED << file, pc, warn, grows, loadoob, loaded, out, prev,
                    reloaded >>

Write ==
    /\ pc = "loaded"
    /\ ~reloaded
    /\ LET w == image_write(image)
       IN  /\ image' = w.image
           /\ out' = w.out
    /\ pc' = "written"
    /\ ret' = NoRet
    /\ UNCHANGED << file, warn, grows, loadoob, loaded, hist, prev, reloaded,
                    nops >>

\* the written file becomes the input of a fresh image_load
Reload ==
    /\ pc = "written"
    /\ file' = out
    /\ prev' = [loaded |-> loaded, hist |-> hist, warn |-> warn,
                sigsize |-> image.sigsize]
    /\ pc' = "start"
    /\ image' = NoImage
    /\ warn' = {}
    /\ grows' = 0
    /\ loadoob' = FALSE
    /\ loaded' = Snapshot(NoImage, 0)
    /\ hist' = << >>
    /\ ret' = NoRet
    /\ out' = << >>
    /\ reloaded' = TRUE
    /\ UNCHANGED nops

Next ==
    \/ Load
    \/ Reparse
    \/ AddSignature
    \/ GetSignature
    \/ RemoveSignature
    \/ Write
    \/ Reload

Spec == Init /\ [][Next]_vars

(***************************************************************************)
(* image_load alone, on the files of LoadInputs.                           *)
(***************************************************************************)
InitLoad ==
    /\ file \in LoadInputs
    /\ pc = "start"
    /\ image = NoImage
    /\ warn = {}
    /\ grows = 0
    /\ loadoob = FALSE
    /\ loaded = Snapshot(NoImage, 0)
    /\ hist = << >>
    /\ ret = NoRet
    /\ out = << >>
    /\ prev = NoPrev
    /\ reloaded = FALSE
    /\ nops = 0

NextLoad ==
    \/ Load
    \/ Reparse

SpecLoad == InitLoad /\ [][NextLoad]_vars

(***************************************************************************)
(* Properties.                                                             *)
(***************************************************************************)
\* image_load has returned an image (later calls leave the regions,
\* data_size and size as they are)
LoadDone == pc \in {"loaded", "got", "written"}

RegionEnd(r) == r.data + r.size

\* C1: after image_load succeeds the region list is sorted strictly by
\* start offset and pairwise disjoint: for i < j, the end of region i is
\* at most the start of region j.
C1_RegionsSortedDisjoint ==
    LoadDone =>
        \A i, j \in 1..Len(image.checksum_regions) :
            i < j =>
                /\ image.checksum_regions[i].data
                      < image.checksum_regions[j].data
                /\ RegionEnd(image.checksum_regions[i])
                      <= image.checksum_regions[j].data

\* the indices of the regions that hold the byte at offset b
RegionsHolding(b) ==
    { i \in 1..Len(image.checksum_regions) :
        /\ image.checksum_regions[i].data <= b
        /\ b < RegionEnd(image.checksum_regions[i]) }

\* C2: after image_load succeeds every byte before the certificate table,
\* except the 4 bytes of the checksum field and the 8 bytes of the
\* security data directory entry, lies in exactly one region.
C2_RegionsCover ==
    LoadDone =>
        \A b \in 0..(image.size - image.cert_table_size - 1) :
            (/\ ~(b >= image.checksum /\ b < image.checksum + 4)
             /\ ~(/\ b >= image.data_dir_sigtable
                  /\ b < image.data_dir_sigtable + DataDirEntrySize))
                => Cardinality(RegionsHolding(b)) = 1

\* the security data directory entry (addr, size) stored in bytes
DirEntry(bytes) ==
    << __pehdr_u32(bytes, image.data_dir_sigtable),
       __pehdr_u32(bytes, image.data_dir_sigtable + 4) >>

\* whether offset b lies in the checksum field
InChecksumField(b) == b >= image.checksum /\ b < image.checksum + 4

\* whether offset b lies in the security data directory entry
InSigtableEntry(b) ==
    /\ b >= image.data_dir_sigtable
    /\ b < image.data_dir_sigtable + DataDirEntrySize

\* C3: after image_write the security data directory entry of the written
\* file is (data_size, len(sig_bytes)) when the signature buffer is
\* non-empty and (0, 0) when it is empty, and the file is the first
\* data_size bytes of the image followed by the signature buffer; the
\* bytes of the image are those of the file loaded, outside the checksum
\* field and the directory entry.
C3_WrittenDirectory ==
    pc = "written" =>
        /\ out = Slice(image.buf, 0, image.data_size) \o image.sigbuf
        /\ Len(out) = image.data_size + Len(image.sigbuf)
        /\ DirEntry(out) =
              IF image.sigbuf /= << >>
              THEN << image.data_size, Len(out) - image.data_size >>
              ELSE << 0, 0 >>
        /\ ~reloaded =>
              \A b \in 0..(Len(file) - 1) :
                  (/\ b < image.data_size
                   /\ ~InChecksumField(b)
                   /\ ~InSigtableEntry(b))
                  => At(out, b) = At(file, b)

\* an image with signatures was edited by add and remove calls and written
C3_Witness ==
    /\ pc = "written"
    /\ image.sigbuf /= << >>
    /\ \E i \in 1..Len(hist) : hist[i].op = "remove" /\ hist[i].rc = 0
    /\ \E i \in 1..Len(hist) : hist[i].op = "add"

\* C4: writing an image that was loaded without a warning and not edited
\* gives a file of the input's length that equals the input at every
\* offset outside the checksum field.
C4_UnmodifiedRoundTrip ==
    (pc = "written" /\ ~reloaded /\ hist = << >> /\ warn = {}) =>
        /\ Len(out) = Len(file)
        /\ \A b \in 0..(Len(file) - 1) :
              (b < Len(out) /\ ~InChecksumField(b))
                  => At(out, b) = At(file, b)

\* The fold of the specification over a sequence of bytes: consecutive
\* 16-bit little-endian words, new = sum + x, sum = (new >> 16) +
\* (new & 0xFFFF); an odd trailing byte is added as a low byte.  Folds
\* the bytes lo+1 .. hi of bytes, lo even.
RECURSIVE FoldSum(_, _, _, _)
FoldSum(sum, bytes, lo, hi) ==
    IF hi - lo <= 2
    THEN IF hi - lo = 2
         THEN LET new == sum + bytes[lo + 1] + 256 * bytes[lo + 2]
              IN  (new \div 65536) + (new % 65536)
         ELSE IF hi - lo = 1
         THEN LET new == sum + bytes[lo + 1]
              IN  (new \div 65536) + (new % 65536)
         ELSE sum
    ELSE LET mid == lo + 2 * ((hi - lo) \div 4)
             left == FoldSum(sum, bytes, lo, IF mid = lo THEN lo + 2 ELSE mid)
         IN  IF left >= 0
             THEN FoldSum(left, bytes, IF mid = lo THEN lo + 2 ELSE mid, hi)
             ELSE left

Fold(sum, bytes) == FoldSum(sum, bytes, 0, Len(bytes))

\* the checksum the specification defines for the written file w of an
\* image with data_size d whose checksum field is at offset c
SpecChecksum(w, c, d) ==
    LET s1 == Fold(0, Slice(w, 0, c))
        s2 == Fold(s1, Slice(w, c + 4, d))
        s3 == IF Len(w) > d THEN Fold(s2, Slice(w, d, Len(w))) ELSE s2
    IN  s3 + d + (IF Len(w) > d THEN Len(w) - d ELSE 0)

\* the image with the 4 bytes of its checksum field replaced by v
WithChecksumField(im, v) == [im EXCEPT !.buf = Poke(@, im.checksum, v)]

\* values of a stored checksum field
FieldValues == { << 0, 0, 0, 0 >>, << 239, 190, 173, 222 >> }

\* C5: the checksum image_write stores is the fold-sum over the bytes
\* before the checksum field, the bytes after it up to data_size, and the
\* signature bytes when a signature is written, plus data_size, plus the
\* signature length when a signature is written; and the written file
\* does not depend on what the checksum field held before.
C5_ChecksumFresh ==
    pc = "written" =>
        /\ __pehdr_u32(out, image.checksum)
              = SpecChecksum(out, image.checksum, image.data_size)
        /\ \A v \in FieldValues :
              image_write(WithChecksumField(image, v)).out = out

\* a signed image whose checksum field lies at an odd offset was written
C5_Witness ==
    /\ pc = "written"
    /\ image.checksum % 2 = 1
    /\ IsSigned(image)
    /\ __pehdr_u32(out, image.checksum) > image.data_size + image.sigsize

\* number of leading calls of hist that are add_signature calls
RECURSIVE AddsFrom(_)
AddsFrom(i) ==
    IF i <= Len(hist) /\ hist[i].op = "add" THEN 1 + AddsFrom(i + 1) ELSE 0

\* the image was loaded with an empty signature buffer and every call
\* since was an add_signature, k >= 1 of them
OnlyAdds(k) ==
    /\ loaded.sigbuf = << >>
    /\ k >= 1
    /\ k = Len(hist)
    /\ AddsFrom(1) = k

\* C6: after k >= 1 add_signature calls on an image whose signature
\* buffer was empty, image_get_signature(i) succeeds for i < k with the
\* i-th payload and its unpadded length; get and remove with an index
\* >= k fail, read nothing outside the signature buffer and leave the
\* image as it was.
C6_SignatureCount ==
    /\ (pc = "got" /\ OnlyAdds(Len(hist))) =>
          /\ ret.signum < Len(hist) =>
                /\ ret.rc = 0
                /\ ret.payload = hist[ret.signum + 1].sig
                /\ ret.size = Len(hist[ret.signum + 1].sig)
          /\ ret.signum >= Len(hist) => (ret.rc = -1 /\ ~ret.oob)
    /\ \A n \in 2..Len(hist) :
          (/\ loaded.sigbuf = << >>
           /\ AddsFrom(1) = n - 1
           /\ hist[n].op = "remove"
           /\ hist[n].signum >= n - 1)
          => /\ hist[n].rc = -1
             /\ ~hist[n].oob
             /\ n = Len(hist) => SigOf(image) = hist[n].before

\* The number of entries of a certificate table: the entries follow each
\* other at the 8-aligned sizes of their headers (specification, 4.6).
RECURSIVE EntriesFrom(_, _)
EntriesFrom(sigbuf, addr) ==
    IF addr + CertHdrSize > Len(sigbuf) THEN 0
    ELSE IF __pehdr_u32(sigbuf, addr) < CertHdrSize THEN 1
    ELSE 1 + EntriesFrom(sigbuf,
                         addr + align_up(__pehdr_u32(sigbuf, addr), 8))

EntryCount(sigbuf) == EntriesFrom(sigbuf, 0)

\* the last two calls were add_signature and remove_signature of the
\* entry that call added
AddedThenRemoved ==
    /\ pc = "loaded"
    /\ ~reloaded
    /\ Len(hist) >= 2
    /\ hist[Len(hist) - 1].op = "add"
    /\ hist[Len(hist)].op = "remove"
    /\ hist[Len(hist)].signum = EntryCount(hist[Len(hist) - 1].before.sigbuf)

\* C7: add_signature followed by remove_signature of the entry it added
\* restores the signature buffer to its content and length before the
\* add, and leaves the image bytes and data_size as they were.
C7_AddRemoveRoundTrip ==
    AddedThenRemoved =>
        /\ hist[Len(hist)].rc = 0
        /\ SigOf(image) = hist[Len(hist) - 1].before
        /\ image.data_size = loaded.data_size
        /\ Slice(image.buf, 0, Len(file)) = file

\* C7 on the images whose loaded certificate table is a multiple of 8
\* bytes long
C7_OnAlignedTables ==
    loaded.sigsize % 8 = 0 => C7_AddRemoveRoundTrip

\* C8: after image_load and any add_signature and remove_signature calls
\* the length of a non-empty signature buffer is a multiple of 8, and
\* data_size is a multiple of 8.
C8_Alignment ==
    LoadDone =>
        /\ image.sigbuf /= << >> => Len(image.sigbuf) % 8 = 0
        /\ image.sigbuf /= << >> => image.sigsize % 8 = 0
        /\ image.data_size % 8 = 0

\* the run signed a well-formed unsigned image with one add_signature(p),
\* wrote it, and loaded the written file
SignedAndReloaded ==
    /\ reloaded
    /\ pc \in {"loaded", "got"}
    /\ prev.warn = {}
    /\ prev.loaded.cert_table_size = 0
    /\ prev.loaded.sigbuf = << >>
    /\ Len(prev.hist) = 1
    /\ prev.hist[1].op = "add"

\* C9: a well-formed unsigned image, signed with add_signature(p),
\* written and loaded again has one signature entry whose payload is p
\* with length len(p), the data_size it had before, the security
\* directory (data_size, align8(8 + len(p))), and the region list of the
\* first load, so the bytes hashed are the bytes that were hashed for the
\* signature.
C9_SignReloadRoundTrip ==
    SignedAndReloaded =>
        LET p == prev.hist[1].sig
            padded == align_up(CertHdrSize + Len(p), 8)
        IN  /\ image.data_size = prev.loaded.data_size
            /\ DirEntry(image.buf) = << image.data_size, padded >>
            /\ image.checksum_regions = prev.loaded.checksum_regions
            /\ loaded.hashed = prev.loaded.hashed
            /\ image.sigsize = padded
            /\ Len(image.sigbuf) = padded
            /\ EntryCount(image.sigbuf) = 1
            /\ warn = {}
            /\ ~loadoob
            /\ (pc = "got" /\ ret.signum = 0) =>
                  (ret.rc = 0 /\ ret.payload = p /\ ret.size = Len(p))
            /\ (pc = "got" /\ ret.signum = 1) => (ret.rc = -1 /\ ~ret.oob)

\* the payload of 10 bytes was read back from the reloaded image
C9_Witness ==
    /\ SignedAndReloaded
    /\ pc = "got"
    /\ ret.signum = 0
    /\ Len(prev.hist[1].sig) = 10
    /\ prev.loaded.data_size = 296

\* C10: after image_load succeeds data_size is at least the end of every
\* region of the region list and at most the length of the image buffer.
C10_DataSizeCoversRegions ==
    LoadDone =>
        /\ \A i \in 1..Len(image.checksum_regions) :
              image.data_size >= RegionEnd(image.checksum_regions[i])
        /\ image.data_size <= Len(image.buf)

\* the end of the section table the headers of bytes declare
ScnTableEnd(bytes) ==
    LET pe == __pehdr_u32(bytes, ELfanewOff)
    IN  pe + PeHdrSize + __pehdr_u16(bytes, pe + FOpthdrOff)
           + ScnHdrSize * __pehdr_u16(bytes, pe + FNscnsOff)

\* the PE header, a.out header and section table the file declares lie
\* in the file
HeadersInFile ==
    /\ Len(file) >= DosHdrSize
    /\ __pehdr_u32(file, ELfanewOff) + PeHdrSize <= Len(file)
    /\ ScnTableEnd(file) <= Len(file)

\* the bytes image_load added to the buffer are zero
PaddedWithZeros ==
    \A b \in Len(file)..(Len(image.buf) - 1) : At(image.buf, b) = 0

\* C11: image_load grows the buffer at most once: after a growth to
\* data_size the parse of the grown buffer gives a data_size that is at
\* most its length, and load returns; the bytes from the old length to
\* data_size are zero.
C11_GrowsAtMostOnce ==
    ~reloaded =>
        /\ grows <= 1
        /\ LoadDone =>
              /\ image.size = Len(image.buf)
              /\ image.data_size <= image.size
              /\ PaddedWithZeros

\* C11 on the files whose headers and section table lie in the file
C11_OnHeadersInFile ==
    HeadersInFile => C11_GrowsAtMostOnce

\* the header validations of the specification (4.1, 1 to 6) on the bytes
\* of a file
HeaderValid(bytes) ==
    /\ Len(bytes) >= DosHdrSize
    /\ At(bytes, 0) = 77 /\ At(bytes, 1) = 90
    /\ __pehdr_u32(bytes, ELfanewOff) < Len(bytes)
    /\ __pehdr_u32(bytes, ELfanewOff) + PeHdrSize <= Len(bytes)
    /\ LET pe == __pehdr_u32(bytes, ELfanewOff)
           machine == __pehdr_u16(bytes, pe + FMagicOff)
           opt == pe + PeHdrSize
       IN  /\ Slice(bytes, pe, pe + 4) = << 80, 69, 0, 0 >>
           /\ opt + 2 <= Len(bytes)
           /\ \/ /\ machine \in { IMAGE_FILE_MACHINE_I386,
                                  IMAGE_FILE_MACHINE_THUMB }
                 /\ __pehdr_u16(bytes, opt) = 267
                 /\ __pehdr_u16(bytes, pe + FOpthdrOff)
                       >= OptMinSize32 + 5 * DataDirEntrySize
              \/ /\ machine \in { IMAGE_FILE_MACHINE_AMD64,
                                  IMAGE_FILE_MACHINE_AARCH64 }
                 /\ __pehdr_u16(bytes, opt) = 523
                 /\ __pehdr_u16(bytes, pe + FOpthdrOff)
                       >= OptMinSize64 + 5 * DataDirEntrySize

\* C12: image_load returns an image only if the file passes every header
\* validation: DOS header length and magic, e_lfanew in the file with
\* room for the PE header, the PE signature, a machine type and a.out
\* magic that go together, and an optional header of at least the fixed
\* fields and 5 data directory entries; a load that fails returns no
\* image.
C12_LoadOnlyValidHeaders ==
    ~reloaded =>
        /\ LoadDone => HeaderValid(file)
        /\ pc = "failed" => image = NoImage

\* the a.out magic the validation reads is a part of the file
OptMagicInFile ==
    /\ Len(file) >= DosHdrSize
    /\ __pehdr_u32(file, ELfanewOff) + PeHdrSize + 2 <= Len(file)

\* C12 on the files that hold the a.out magic
C12_OnOptMagicInFile ==
    OptMagicInFile => C12_LoadOnlyValidHeaders

\* a file that passes every validation
C12_Loads ==
    (~reloaded /\ HeaderValid(file)
        /\ Len(file) >= DosHdrSize + PeHdrSize
              + __pehdr_u16(file, __pehdr_u32(file, ELfanewOff) + FOpthdrOff))
    => pc /= "failed"

\* C14: after image_load succeeds every parsed view lies inside the image
\* buffer: the optional header up to the end of the security data
\* directory entry, the section table, the certificate table the
\* directory declares, and every region, whose length is not negative.
C14_ViewsInsideBuffer ==
    LoadDone =>
        /\ image.size = Len(image.buf)
        /\ image.data_dir_sigtable + DataDirEntrySize <= image.size
        /\ image.scnhdr + ScnHdrSize * image.sections <= image.size
        /\ image.cert_table_size /= 0 =>
              image.cert_table + image.cert_table_size <= image.size
        /\ \A i \in 1..Len(image.checksum_regions) :
              LET r == image.checksum_regions[i]
              IN  /\ r.size >= 0
                  /\ r.data >= 0
                  /\ RegionEnd(r) <= image.size

\* the entries of sigbuf from offset addr on are whole: each header lies
\* in sigbuf, has revision 0x0200 and type 0x0002 and a size that holds
\* the header, and the padded entry ends in sigbuf
RECURSIVE WellFormedFrom(_, _)
WellFormedFrom(sigbuf, addr) ==
    \/ addr = Len(sigbuf)
    \/ /\ addr + CertHdrSize <= Len(sigbuf)
       /\ __pehdr_u32(sigbuf, addr) >= CertHdrSize
       /\ __pehdr_u16(sigbuf, addr + 4) = CERT_TABLE_REVISION
       /\ __pehdr_u16(sigbuf, addr + 6) = CERT_TABLE_TYPE_PKCS
       /\ addr + align_up(__pehdr_u32(sigbuf, addr), 8) <= Len(sigbuf)
       /\ WellFormedFrom(sigbuf,
                         addr + align_up(__pehdr_u32(sigbuf, addr), 8))

\* a signature table of n >= 1 well-formed entries
WellFormed(sig) ==
    /\ sig.sigbuf /= << >>
    /\ sig.sigsize = Len(sig.sigbuf)
    /\ WellFormedFrom(sig.sigbuf, 0)

\* the offset of entry i of a well-formed table, entry 0 being at addr
RECURSIVE EntryOffset(_, _, _)
EntryOffset(sigbuf, addr, i) ==
    IF i = 0 THEN addr
    ELSE EntryOffset(sigbuf,
                     addr + align_up(__pehdr_u32(sigbuf, addr), 8), i - 1)

\* the padded length of entry i
EntryLength(sigbuf, i) ==
    align_up(__pehdr_u32(sigbuf, EntryOffset(sigbuf, 0, i)), 8)

\* the table without its entry i: the entries before it and the entries
\* behind it, as they are
WithoutEntry(sigbuf, i) ==
    LET off == EntryOffset(sigbuf, 0, i)
    IN  Slice(sigbuf, 0, off)
           \o Slice(sigbuf, off + EntryLength(sigbuf, i), Len(sigbuf))

\* the signature table after call n of hist
SigAfter(n) == IF n = Len(hist) THEN SigOf(image) ELSE hist[n + 1].before

\* call n of hist removed entry i of a well-formed table of more than i
\* entries
RemovedEntry(n, i) ==
    /\ hist[n].op = "remove"
    /\ hist[n].signum = i
    /\ WellFormed(hist[n].before)
    /\ i < EntryCount(hist[n].before.sigbuf)

\* C13: remove_signature(i) on a table of n >= 1 well-formed entries,
\* i < n, leaves the other n-1 entries in their order and unchanged, and
\* makes the table shorter by the padded size of entry i; removing the
\* only entry leaves the table empty.
C13_RemoveKeepsOthers ==
    \A n \in 1..Len(hist) : \A i \in 0..MaxOps :
        RemovedEntry(n, i) =>
            LET before == hist[n].before.sigbuf
            IN  /\ hist[n].rc = 0
                /\ ~hist[n].oob
                /\ SigAfter(n).sigbuf = WithoutEntry(before, i)
                /\ Len(SigAfter(n).sigbuf)
                      = Len(before) - EntryLength(before, i)
                /\ EntryCount(SigAfter(n).sigbuf) = EntryCount(before) - 1
                /\ SigAfter(n).sigbuf /= << >> =>
                      /\ SigAfter(n).sigsize = Len(SigAfter(n).sigbuf)
                      /\ WellFormed(SigAfter(n))
                /\ EntryCount(before) = 1 =>
                      SigAfter(n) = [sigbuf |-> << >>, sigsize |-> 0]

\* the middle one of three entries was removed
C13_Witness ==
    /\ Len(hist) = 2
    /\ RemovedEntry(2, 1)
    /\ EntryCount(hist[2].before.sigbuf) = 3
    /\ EntryCount(image.sigbuf) = 2

====
